---- MODULE Spec2Model ----
(***************************************************************************)
(* Model of src/app.py: the auto-fit text renderer draw_text_on_image      *)
(* (font-size search, greedy character wrapping, line drawing, per-region  *)
(* exception handling) and the session state machine of main.              *)
(*                                                                         *)
(* A text is a sequence of glyphs.  Two glyph classes are distinguished:   *)
(* "W" (full-width, CJK-like) and "n" (narrow, Latin-like).  Font.getbbox  *)
(* is modelled by LineW / LineH.                                           *)
(***************************************************************************)
EXTENDS Integers, Sequences, FiniteSets, TLC

\* ------------------------------------------------------------------ bounds
MaxLen == 3
MaxBoxH == 18
MaxItems == 3
MaxUploads == 3

\* ------------------------------------------------------- program constants
MinFontSize == 8
FontStep == 2

VARIABLES
    text_data,      \* argument of draw_text_on_image: list of items
    idx,            \* position of the for loop over text_data (1-based)
    pc,             \* "next" | "loop" | "draw" | "returned" | "raised"
    font_size,      \* local font_size
    font,           \* size the local font object was loaded with
    lines,          \* local lines
    accepted,       \* TRUE iff the while loop was left through break
    tried,          \* candidates measured by the while loop for this item
    drawn,          \* draw.text calls made on result_img so far
    warnings,       \* st.warning calls made so far (item indexes)
    step,           \* st.session_state.step
    gemini_data,    \* st.session_state.gemini_data
    bg_image_bytes, \* st.session_state.bg_image_bytes
    uploaded_file,  \* value of the file_uploader widget (0 = no file)
    keys_set,       \* both API keys are filled in the sidebar
    n_uploads,      \* number of files uploaded so far
    ui_msg,         \* last st.success / st.error shown by a button handler
    final_image     \* last composite produced by the generate button

drawVars == <<text_data, idx, pc, font_size, font, lines, accepted, tried,
              drawn, warnings>>
mainVars == <<step, gemini_data, bg_image_bytes, uploaded_file, keys_set,
              n_uploads, ui_msg, final_image>>
vars == <<text_data, idx, pc, font_size, font, lines, accepted, tried,
          drawn, warnings, step, gemini_data, bg_image_bytes, uploaded_file,
          keys_set, n_uploads, ui_msg, final_image>>

\* ------------------------------------------------------------ font metrics
Chars == {"W", "n"}

CharW(c, s) == IF c = "W" THEN s ELSE (s + 2) \div 3

CharH(c, s) == IF c = "W" THEN s ELSE (3 * s) \div 4

Max2(a, b) == IF a >= b THEN a ELSE b

RECURSIVE LineW(_, _)
LineW(l, s) == IF l = <<>> THEN 0 ELSE CharW(Head(l), s) + LineW(Tail(l), s)

RECURSIVE LineH(_, _)
LineH(l, s) == IF l = <<>> THEN 0 ELSE Max2(CharH(Head(l), s), LineH(Tail(l), s))

\* ---------------------------------------------------------------- wrapping
FitsWidthStale(test_line, s, box_w) ==
    LineW(SubSeq(test_line, 1, Len(test_line) - 1), s) <= box_w

FitsWidth(test_line, s, box_w) == LineW(test_line, s) <= box_w

CloseLineAlways(ls, current_line) == Append(ls, current_line)

CloseLine(ls, current_line) ==
    IF current_line # <<>> THEN Append(ls, current_line) ELSE ls

RECURSIVE WrapFrom(_, _, _, _, _, _)
WrapFrom(text, i, current_line, ls, s, box_w) ==
    IF i > Len(text)
    THEN IF current_line # <<>> THEN Append(ls, current_line) ELSE ls
    ELSE LET test_line == Append(current_line, text[i]) IN
         IF FitsWidth(test_line, s, box_w)
         THEN WrapFrom(text, i + 1, test_line, ls, s, box_w)
         ELSE WrapFrom(text, i + 1, <<text[i]>>, CloseLine(ls, current_line),
                       s, box_w)

Wrap(text, s, box_w) == WrapFrom(text, 1, <<>>, <<>>, s, box_w)

\* ------------------------------------------------------------ block height
LineSpacingRound(s) == (2 * s + 5) \div 10

LineSpacing(s) == s \div 5

RECURSIVE SumH(_, _)
SumH(ls, s) == IF ls = <<>> THEN 0 ELSE LineH(Head(ls), s) + SumH(Tail(ls), s)

TotalH(ls, s) == SumH(ls, s) + LineSpacing(s) * (Len(ls) - 1)

ShrinkByOne(s) == s - 1

Shrink(s) == s - FontStep

\* ------------------------------------------------------------------ inputs
RECURSIVE Concat(_)
Concat(ls) == IF ls = <<>> THEN <<>> ELSE Head(ls) \o Concat(Tail(ls))

Texts == UNION {[1..n -> Chars] : n \in 0..MaxLen}

BoxWidths == {0, 5, 12, 40}

Rec(text, box, color) ==
    [kind |-> "record", text |-> text, box |-> box, color |-> color]

NonRecord == [kind |-> "nonrecord", text |-> <<>>, box |-> <<>>, color |-> ""]

FitItems ==
    {Rec(t, <<2, 3, 2 + h, 3 + w>>, "#FFFFFF") :
        t \in Texts, h \in 0..MaxBoxH, w \in BoxWidths}

BatchItems ==
    { Rec(<<"W", "W">>, <<0, 0, 14, 40>>, "#FFFFFF"),
      Rec(<<"n", "n">>, <<20, 0, 34, 12>>, "#000000"),
      Rec(<<"W">>, <<40, 0, 45, 60>>, "#FFFFFF"),
      Rec(<<"W">>, <<50, 10, 60, 10>>, "#FFFFFF"),
      Rec(<<>>, <<50, 20, 60, 40>>, "#FFFFFF"),
      Rec(<<"W">>, <<50, 20, 60>>, "#FFFFFF"),
      Rec(<<"n">>, <<70, 0, 80, 40>>, "bad"),
      NonRecord }

Inputs ==
    {<<it>> : it \in FitItems}
        \cup UNION {[1..n -> BatchItems] : n \in 2..MaxItems}

ValidColor(c) == c # "bad"

\* ----------------------------------------------------- the item under work
item == text_data[idx]
ymin == item.box[1]
xmin == item.box[2]
ymax == item.box[3]
xmax == item.box[4]
box_w == xmax - xmin
box_h == ymax - ymin

\* --------------------------------------------------------- session of main
NoData == [upload |-> 0, reviewed |-> FALSE, rows |-> 0]
NoImage == [upload |-> 0, bg |-> 0, regions |-> NoData]

InitDraw ==
    /\ idx = 1
    /\ pc = "next"
    /\ font_size = 0
    /\ font = 0
    /\ lines = <<>>
    /\ accepted = FALSE
    /\ tried = <<>>
    /\ drawn = <<>>
    /\ warnings = <<>>

InitSession ==
    /\ step = 0
    /\ gemini_data = NoData
    /\ bg_image_bytes = 0
    /\ uploaded_file = 0
    /\ keys_set = FALSE
    /\ n_uploads = 0
    /\ ui_msg = "none"
    /\ final_image = NoImage

Init ==
    /\ text_data \in Inputs
    /\ InitDraw
    /\ InitSession

\* --------------------------------------------- draw_text_on_image, per item
\* item is not a dict: item.get raises inside the try, and the handler's own
\* item.get('text') raises again, so the exception leaves the function.
HandlerRaises ==
    /\ pc = "next"
    /\ idx <= Len(text_data)
    /\ item.kind = "nonrecord"
    /\ pc' = "raised"
    /\ UNCHANGED <<text_data, idx, font_size, font, lines, accepted, tried,
                   drawn, warnings>>
    /\ UNCHANGED mainVars

\* box does not unpack into four values: ValueError, caught, warning.
UnpackRaises ==
    /\ pc = "next"
    /\ idx <= Len(text_data)
    /\ item.kind = "record"
    /\ Len(item.box) # 4
    /\ warnings' = Append(warnings, idx)
    /\ idx' = idx + 1
    /\ UNCHANGED <<text_data, pc, font_size, font, lines, accepted, tried,
                   drawn>>
    /\ UNCHANGED mainVars

\* if box_w <= 0 or box_h <= 0 or not text: continue
SkipDegenerate ==
    /\ pc = "next"
    /\ idx <= Len(text_data)
    /\ item.kind = "record"
    /\ Len(item.box) = 4
    /\ (box_w <= 0 \/ box_h <= 0 \/ item.text = <<>>)
    /\ idx' = idx + 1
    /\ UNCHANGED <<text_data, pc, font_size, font, lines, accepted, tried,
                   drawn, warnings>>
    /\ UNCHANGED mainVars

\* font_size = box_h; font = truetype(int(font_size)); lines = []
BeginFit ==
    /\ pc = "next"
    /\ idx <= Len(text_data)
    /\ item.kind = "record"
    /\ Len(item.box) = 4
    /\ ~(box_w <= 0 \/ box_h <= 0 \/ item.text = <<>>)
    /\ font_size' = box_h
    /\ font' = box_h
    /\ lines' = <<>>
    /\ accepted' = FALSE
    /\ tried' = <<>>
    /\ pc' = "loop"
    /\ UNCHANGED <<text_data, idx, drawn, warnings>>
    /\ UNCHANGED mainVars

\* One iteration of `while font_size > 8`.
LoopIterNoBreak ==
    /\ pc = "loop"
    /\ font_size > MinFontSize
    /\ LET ls == Wrap(item.text, font_size, box_w)
           total_h == TotalH(ls, font_size)
       IN /\ font' = font_size
          /\ lines' = ls
          /\ tried' = Append(tried, [size |-> font_size, lines |-> ls,
                                     line_spacing |-> LineSpacing(font_size),
                                     total_h |-> total_h])
          /\ font_size' = Shrink(font_size)
          /\ UNCHANGED <<pc, accepted>>
    /\ UNCHANGED <<text_data, idx, drawn, warnings>>
    /\ UNCHANGED mainVars

LoopIter ==
    /\ pc = "loop"
    /\ font_size > MinFontSize
    /\ LET ls == Wrap(item.text, font_size, box_w)
           total_h == TotalH(ls, font_size)
       IN /\ font' = font_size
          /\ lines' = ls
          /\ tried' = Append(tried, [size |-> font_size, lines |-> ls,
                                     line_spacing |-> LineSpacing(font_size),
                                     total_h |-> total_h])
          /\ IF total_h <= box_h
             THEN /\ accepted' = TRUE
                  /\ pc' = "draw"
                  /\ UNCHANGED font_size
             ELSE /\ font_size' = Shrink(font_size)
                  /\ UNCHANGED <<pc, accepted>>
    /\ UNCHANGED <<text_data, idx, drawn, warnings>>
    /\ UNCHANGED mainVars

\* The while condition is false: the loop is left without break.
LoopExit ==
    /\ pc = "loop"
    /\ ~(font_size > MinFontSize)
    /\ pc' = "draw"
    /\ UNCHANGED <<text_data, idx, font_size, font, lines, accepted, tried,
                   drawn, warnings>>
    /\ UNCHANGED mainVars

\* The draw.text calls of `for line in lines`, y_text starting at y.
RECURSIVE DrawCalls(_, _)
DrawCalls(ls, y) ==
    IF ls = <<>> THEN <<>>
    ELSE LET h == LineH(Head(ls), font) IN
         <<[item |-> idx, line |-> Head(ls), x |-> xmin, y |-> y,
            w |-> LineW(Head(ls), font), h |-> h,
            font |-> font,
            wrapped_at |-> IF tried = <<>> THEN 0 ELSE tried[Len(tried)].size,
            spacing_size |-> font_size,
            advance |-> h + LineSpacing(font_size),
            accepted |-> accepted]>>
         \o DrawCalls(Tail(ls), y + h + LineSpacing(font_size))

DrawLines ==
    /\ pc = "draw"
    /\ (lines = <<>> \/ ValidColor(item.color))
    /\ drawn' = drawn \o DrawCalls(lines, ymin)
    /\ idx' = idx + 1
    /\ pc' = "next"
    /\ UNCHANGED <<text_data, font_size, font, lines, accepted, tried,
                   warnings>>
    /\ UNCHANGED mainVars

\* draw.text rejects the colour on the first line: ValueError, caught, warning.
DrawRaises ==
    /\ pc = "draw"
    /\ lines # <<>>
    /\ ~ValidColor(item.color)
    /\ warnings' = Append(warnings, idx)
    /\ idx' = idx + 1
    /\ pc' = "next"
    /\ UNCHANGED <<text_data, font_size, font, lines, accepted, tried, drawn>>
    /\ UNCHANGED mainVars

\* return result_img
Return ==
    /\ pc = "next"
    /\ idx > Len(text_data)
    /\ pc' = "returned"
    /\ UNCHANGED <<text_data, idx, font_size, font, lines, accepted, tried,
                   drawn, warnings>>
    /\ UNCHANGED mainVars

Next ==
    \/ HandlerRaises
    \/ UnpackRaises
    \/ SkipDegenerate
    \/ BeginFit
    \/ LoopIter
    \/ LoopExit
    \/ DrawLines
    \/ DrawRaises
    \/ Return

Spec == Init /\ [][Next]_vars

\* ------------------------------------------------------------------- main
\* Every action below is one user interaction followed by the script run it
\* triggers.  The buttons are rendered only when a file is uploaded and both
\* API keys are filled (the early returns of main).
ButtonsShown == uploaded_file # 0 /\ keys_set

reset_state_keeps_bg ==
    /\ step' = 0
    /\ gemini_data' = NoData
    /\ UNCHANGED bg_image_bytes

reset_state ==
    /\ step' = 0
    /\ gemini_data' = NoData
    /\ bg_image_bytes' = 0

\* file_uploader receives a new file: on_change runs reset_state.
Upload ==
    /\ n_uploads < MaxUploads
    /\ n_uploads' = n_uploads + 1
    /\ uploaded_file' = n_uploads + 1
    /\ reset_state
    /\ ui_msg' = "none"
    /\ UNCHANGED <<keys_set, final_image>>
    /\ UNCHANGED drawVars

\* the file is removed from the file_uploader: on_change runs reset_state.
RemoveFile ==
    /\ uploaded_file # 0
    /\ uploaded_file' = 0
    /\ reset_state
    /\ ui_msg' = "none"
    /\ UNCHANGED <<keys_set, n_uploads, final_image>>
    /\ UNCHANGED drawVars

\* the API key inputs of the sidebar are filled or emptied.
SetKeys ==
    /\ keys_set' = ~keys_set
    /\ ui_msg' = "none"
    /\ UNCHANGED <<step, gemini_data, bg_image_bytes, uploaded_file,
                   n_uploads, final_image>>
    /\ UNCHANGED drawVars

\* "run recognition", analyze_image_with_gemini returns data.
RecognizeOk ==
    /\ ButtonsShown
    /\ \E r \in 0..2 :
          gemini_data' = [upload |-> uploaded_file, reviewed |-> FALSE,
                          rows |-> r]
    /\ step' = 1
    /\ ui_msg' = "recognized"
    /\ UNCHANGED <<bg_image_bytes, uploaded_file, keys_set, n_uploads,
                   final_image>>
    /\ UNCHANGED drawVars

\* "run recognition", analyze_image_with_gemini raises.
RecognizeFail ==
    /\ ButtonsShown
    /\ ui_msg' = "recognize_error"
    /\ UNCHANGED <<step, gemini_data, bg_image_bytes, uploaded_file,
                   keys_set, n_uploads, final_image>>
    /\ UNCHANGED drawVars

\* "confirm text and coordinates": stores the edited table, step = 2.
ConfirmReview ==
    /\ ButtonsShown
    /\ step >= 1
    /\ \E r \in 0..2 :
          gemini_data' = [gemini_data EXCEPT !.reviewed = TRUE, !.rows = r]
    /\ step' = 2
    /\ ui_msg' = "none"
    /\ UNCHANGED <<bg_image_bytes, uploaded_file, keys_set, n_uploads,
                   final_image>>
    /\ UNCHANGED drawVars

\* "clean background", remove_text_with_clipdrop returns the image bytes.
CleanOk ==
    /\ ButtonsShown
    /\ ~(step < 2)
    /\ bg_image_bytes' = uploaded_file
    /\ ui_msg' = "clean_ok"
    /\ UNCHANGED <<step, gemini_data, uploaded_file, keys_set, n_uploads,
                   final_image>>
    /\ UNCHANGED drawVars

\* "clean background", remove_text_with_clipdrop raises.
CleanFail ==
    /\ ButtonsShown
    /\ ~(step < 2)
    /\ ui_msg' = "clean_error"
    /\ UNCHANGED <<step, gemini_data, bg_image_bytes, uploaded_file,
                   keys_set, n_uploads, final_image>>
    /\ UNCHANGED drawVars

\* "background is fine": shown only while bg_image_bytes is truthy.
ConfirmBackground ==
    /\ ButtonsShown
    /\ ~(step < 2)
    /\ bg_image_bytes # 0
    /\ step' = 3
    /\ ui_msg' = "none"
    /\ UNCHANGED <<gemini_data, bg_image_bytes, uploaded_file, keys_set,
                   n_uploads, final_image>>
    /\ UNCHANGED drawVars

\* "generate final image": get_font_path, then draw_text_on_image.
Generate ==
    /\ ButtonsShown
    /\ ~(step < 3)
    /\ \E font_path_ok \in BOOLEAN :
          IF font_path_ok
          THEN /\ final_image' = [upload |-> uploaded_file,
                                  bg |-> bg_image_bytes,
                                  regions |-> gemini_data]
               /\ ui_msg' = "composited"
          ELSE /\ ui_msg' = "font_error"
               /\ UNCHANGED final_image
    /\ UNCHANGED <<step, gemini_data, bg_image_bytes, uploaded_file,
                   keys_set, n_uploads>>
    /\ UNCHANGED drawVars

InitMain ==
    /\ text_data = <<>>
    /\ InitDraw
    /\ InitSession

NextMain ==
    \/ Upload
    \/ RemoveFile
    \/ SetKeys
    \/ RecognizeOk
    \/ RecognizeFail
    \/ ConfirmReview
    \/ CleanOk
    \/ CleanFail
    \/ ConfirmBackground
    \/ Generate

SpecMain == InitMain /\ [][NextMain]_vars

\* ------------------------------------------------------------- properties
Fitting == pc \in {"loop", "draw"}

TriedIdx == 1..Len(tried)

DrawnIdx == 1..Len(drawn)

BoxOf(d) == text_data[d.item].box

\* C1: for every region with non-empty text and a box of positive width and
\* height, the lines produced by the fitting loop and handed to the drawing
\* loop concatenate, in order, to the input text.
C1_LinesConcatEqualText ==
    pc = "draw" => Concat(lines) = item.text

\* C2: the accepted font size is the largest tried candidate (box_h,
\* box_h - 2, ... above 8) whose wrapped block height is <= box_h: the loop
\* stops at the first candidate that passes the height test, the accepted
\* block fits, and no earlier (larger) candidate passed.
FitsAt(i) ==
    TotalH(Wrap(item.text, tried[i].size, box_w), tried[i].size) <= box_h

C2_LargestFittingCandidate ==
    Fitting =>
        /\ \A i \in TriedIdx :
              /\ tried[i].size = box_h - FontStep * (i - 1)
              /\ tried[i].size > MinFontSize
              /\ FitsAt(i) =>
                    /\ i = Len(tried)
                    /\ pc = "draw"
                    /\ accepted
                    /\ font_size = tried[i].size
                    /\ font = tried[i].size
                    /\ lines = tried[i].lines
                    /\ tried[i].total_h <= box_h
        /\ (pc = "draw" /\ accepted) => (tried # <<>> /\ FitsAt(Len(tried)))
        /\ (pc = "draw" /\ ~accepted) => \A i \in TriedIdx : ~FitsAt(i)

C2_Witness ==
    /\ pc = "draw"
    /\ accepted
    /\ Len(tried) >= 2
    /\ Len(lines) >= 2

\* C3: a failing or degenerate item never aborts the batch: the function
\* always ends by returning the image, after the for loop has visited every
\* item of text_data.
C3_BatchNeverAborted ==
    pc \in {"returned", "raised"} =>
        (pc = "returned" /\ idx = Len(text_data) + 1)

\* C4: when the function returns, every item for which nothing was drawn
\* has a recorded warning.
C4_EveryUndrawnRegionWarned ==
    pc = "returned" =>
        \A i \in 1..Len(text_data) :
            \/ \E k \in DrawnIdx : drawn[k].item = i
            \/ \E k \in 1..Len(warnings) : warnings[k] = i

\* C5 (as stated): every drawn line has its extent, x .. x + w and
\* y .. y + h, inside the box of its region.
C5_DrawnInsideBox ==
    \A k \in DrawnIdx :
        LET d == drawn[k]
            b == BoxOf(d)
        IN /\ b[2] <= d.x
           /\ d.x + d.w <= b[4]
           /\ b[1] <= d.y
           /\ d.y + d.h <= b[3]

\* C5 (amended): every drawn line starts at the left edge of its box and not
\* above its top; a line of two or more characters stays within the box
\* width; when the layout was accepted by the height test every line stays
\* within the box height.  Only a single character wider than the box can
\* leave the box horizontally, and only a layout left by exhausting the
\* candidates can leave it vertically.
C5_DrawnInsideBoxWhenFitted ==
    \A k \in DrawnIdx :
        LET d == drawn[k]
            b == BoxOf(d)
        IN /\ d.x = b[2]
           /\ b[1] <= d.y
           /\ Len(d.line) >= 2 => d.x + d.w <= b[4]
           /\ d.accepted => d.y + d.h <= b[3]

C5_Witness ==
    /\ Len(drawn) >= 2
    /\ drawn[1].accepted
    /\ drawn[2].item = drawn[1].item
    /\ Len(drawn[1].line) >= 2

\* C6 (as stated): successive candidates strictly decrease and the number of
\* iterations is at most (box_h - 8) / 2 + 1.
StrictlyDecreasing ==
    \A i \in TriedIdx : i > 1 => tried[i].size < tried[i - 1].size

C6_IterationBound ==
    Fitting =>
        /\ StrictlyDecreasing
        /\ 2 * Len(tried) <= (box_h - MinFontSize) + 2

\* C6 (amended): successive candidates strictly decrease and the number of
\* iterations is at most max(0, (box_h - 8) / 2 + 1); for a box height of 8
\* or less the loop body never runs.
C6_IterationBoundClamped ==
    Fitting =>
        /\ StrictlyDecreasing
        /\ Len(tried) <= Max2(0, (box_h - MinFontSize) \div 2 + 1)
        /\ box_h <= MinFontSize => tried = <<>>

C6_Witness ==
    /\ pc = "draw"
    /\ ~accepted
    /\ Len(tried) >= 3

\* C7: every drawn line is drawn with the font size its lines were wrapped
\* at, and the line spacing that advances y is computed from that same size.
C7_LayoutSelfConsistent ==
    \A k \in DrawnIdx :
        /\ drawn[k].font = drawn[k].wrapped_at
        /\ drawn[k].spacing_size = drawn[k].font

\* C8 (as stated): the block height compared with box_h is the sum of the
\* line heights plus round(size * 0.2) * (lineCount - 1).
C8_TotalHeightRounded ==
    \A i \in TriedIdx :
        tried[i].total_h =
            SumH(tried[i].lines, tried[i].size)
                + ((2 * tried[i].size + 5) \div 10) * (Len(tried[i].lines) - 1)

\* C8 (amended): the block height compared with box_h is the sum of the line
\* heights plus int(size * 0.2) * (lineCount - 1), the spacing being
\* truncated, not rounded (size 13 gives 2).
C8_TotalHeightTruncated ==
    \A i \in TriedIdx :
        /\ tried[i].line_spacing = (2 * tried[i].size) \div 10
        /\ tried[i].total_h =
              SumH(tried[i].lines, tried[i].size)
                  + ((2 * tried[i].size) \div 10) * (Len(tried[i].lines) - 1)

C8_Witness ==
    \E i \in TriedIdx : tried[i].size = 13 /\ Len(tried[i].lines) >= 2

\* C9: at every candidate size the wrapped lines are non-empty, every line
\* of two or more characters is at most box_w wide, a wider line is a single
\* character that alone exceeds box_w, and the scan consumes the whole text.
C9_WrappedLines ==
    Fitting =>
        \A i \in TriedIdx :
            /\ \A j \in 1..Len(tried[i].lines) :
                  LET l == tried[i].lines[j] IN
                  /\ l # <<>>
                  /\ Len(l) >= 2 => LineW(l, tried[i].size) <= box_w
                  /\ LineW(l, tried[i].size) > box_w =>
                        (Len(l) = 1 /\ CharW(l[1], tried[i].size) > box_w)
            /\ Concat(tried[i].lines) = item.text

C9_Witness ==
    /\ Fitting
    /\ \E i \in TriedIdx :
          /\ Len(tried[i].lines) >= 2
          /\ \E j \in 1..Len(tried[i].lines) :
                LineW(tried[i].lines[j], tried[i].size) > box_w
          /\ \E j \in 1..Len(tried[i].lines) : Len(tried[i].lines[j]) >= 2

\* C10: the session stages are passed in order: step 3 implies a stored
\* cleaned background, stored regions and background belong to the current
\* upload, a composite uses reviewed regions and a background of the upload
\* it is made for, step only grows one stage at a time, and a change of the
\* uploaded file resets step, regions and background.
SessionOrdered ==
    /\ step \in 0..3
    /\ step = 3 => bg_image_bytes # 0
    /\ step >= 1 => (uploaded_file # 0 /\ gemini_data.upload = uploaded_file)
    /\ step >= 2 => gemini_data.reviewed
    /\ bg_image_bytes # 0 => bg_image_bytes = uploaded_file
    /\ final_image # NoImage =>
          /\ final_image.upload # 0
          /\ final_image.bg = final_image.upload
          /\ final_image.regions.upload = final_image.upload
          /\ final_image.regions.reviewed

SessionStep ==
    /\ step' > step => step' = step + 1
    /\ uploaded_file' # uploaded_file =>
          (step' = 0 /\ gemini_data' = NoData /\ bg_image_bytes' = 0)
    /\ final_image' # final_image =>
          (step = 3 /\ final_image'.bg = bg_image_bytes
                    /\ final_image'.regions = gemini_data)

====
